---- MODULE Spec2Model ----
(***************************************************************************)
(* Costume record lifecycle and content-addressed image store of the       *)
(* beri-cosplay backend (app/crud/costume.py, app/core/images.py).         *)
(*                                                                         *)
(* One request is handled at a time.  `costumes` is the committed table,   *)
(* `uploads` the set of hash directories under ImageProcessor.upload_dir,  *)
(* `req` the request in flight: the handler's position, its arguments, the *)
(* ORM object loaded in its session and the attributes the session knows   *)
(* to be modified.                                                         *)
(***************************************************************************)
EXTENDS Integers, Sequences, FiniteSets, TLC

VARIABLES costumes, next_id, uploads, req, users, imported_at, reply,
          user_id_seq, tokens, tasks

vars == <<costumes, next_id, uploads, req, users, imported_at, reply,
          user_id_seq, tokens, tasks>>

(* What the costume lifecycle handlers never touch: the users table and    *)
(* its id sequence, the tokens issued so far, the instant                  *)
(* app/models/costume.py was imported, the value the last query or pure    *)
(* function returned, and the requests that run side by side.              *)
beside == <<users, imported_at, reply, user_id_seq, tokens, tasks>>

(* What neither the image functions nor the catalogue touch. *)
outside == <<user_id_seq, tokens, tasks>>

(* ------------------------------ bounds -------------------------------- *)
MaxId == 2
MaxImages == 2
MaxAmount == 2
MaxAdded == 1
MaxSkip == 1
MaxUsers == 2
MaxTasks == 2

(* ----------------------------- constants ------------------------------ *)
AllowedTypes == {"image/jpeg", "image/png", "image/webp", "image/avif"}
MaxImageSize == 10 * 1024 * 1024
DefaultAmount == 1

Names == {"Witch", "Elf"}
Ids == 1..MaxId
Deltas == (0 - (MaxAmount + 1))..MaxAmount

(* The files a client may submit: two good ones (the second exactly at the *)
(* size limit), one of a type that is not allowed, one a byte over the     *)
(* limit, and one whose bytes PIL cannot open.                             *)
Uploads ==
  { [filename |-> "a.jpg", content_type |-> "image/jpeg", size |-> 1024,
     content |-> 1, decodable |-> TRUE],
    [filename |-> "b.png", content_type |-> "image/png", size |-> MaxImageSize,
     content |-> 2, decodable |-> TRUE],
    [filename |-> "c.gif", content_type |-> "image/gif", size |-> 1024,
     content |-> 3, decodable |-> TRUE],
    [filename |-> "d.webp", content_type |-> "image/webp", size |-> MaxImageSize + 1,
     content |-> 4, decodable |-> TRUE],
    [filename |-> "e.avif", content_type |-> "image/avif", size |-> 1024,
     content |-> 5, decodable |-> FALSE] }

(* ------------------------------ helpers ------------------------------- *)
(* hashlib.md5(content).hexdigest(): equal bytes give equal digests and,   *)
(* on the contents used here, different bytes give different digests.      *)
calculate_hash(content) == <<"md5", content>>

RemovableHashes == {calculate_hash(1), calculate_hash(2)}

process_image_no_mkdir(file, store) ==
  LET file_hash == calculate_hash(file.content)
  IN  [uploads |-> store,
       raised  |-> ~file.decodable,
       info    |-> [original_name |-> file.filename, hash |-> file_hash]]

(* ImageProcessor.process_image on store `store`: the hash directory is    *)
(* made and the original written before PIL opens the bytes, so a file PIL *)
(* cannot open leaves its directory behind and raises.                     *)
process_image(file, store) ==
  LET file_hash == calculate_hash(file.content)
  IN  [uploads |-> store \cup {file_hash},
       raised  |-> ~file.decodable,
       info    |-> [original_name |-> file.filename, hash |-> file_hash]]

delete_image_keeps_dir(image_hash, store, rmtree_ok) ==
  IF image_hash \in store
    THEN IF rmtree_ok
           THEN [uploads |-> store, ret |-> "True"]
           ELSE [uploads |-> store, ret |-> "OSError"]
    ELSE [uploads |-> store, ret |-> "False"]

(* ImageProcessor.delete_image: rmtree of an existing directory either     *)
(* succeeds or raises OSError (rmtree_ok = FALSE), leaving the directory.  *)
delete_image(image_hash, store, rmtree_ok) ==
  IF image_hash \in store
    THEN IF rmtree_ok
           THEN [uploads |-> store \ {image_hash}, ret |-> "True"]
           ELSE [uploads |-> store, ret |-> "OSError"]
    ELSE [uploads |-> store, ret |-> "False"]

(* CostumeCRUD.get_by_id *)
get_by_id(costume_id) ==
  IF costume_id \in DOMAIN costumes THEN {costumes[costume_id]} ELSE {}

(* select(Costume).where(Costume.name == name) *)
ByName(name) == {i \in DOMAIN costumes : costumes[i].name = name}

NoObj == [name |-> "", amount |-> 0, images |-> <<>>]
NoData == [set |-> {}, name |-> "", amount |-> 0]

Idle ==
  [op |-> "idle", pc |-> "idle", id |-> 0, data |-> NoData, n |-> 0,
   remove |-> {}, i |-> 0, obj |-> NoObj, modified |-> {}, keep |-> <<>>,
   files |-> <<>>, calls |-> <<>>, status |-> "",
   start |-> [costumes |-> <<>>, uploads |-> {}]]

(* The state a handler starts from, kept while its request is in flight. *)
Snapshot == [costumes |-> costumes, uploads |-> uploads]

Begin(op, id) ==
  [Idle EXCEPT !.op = op, !.id = id, !.start = Snapshot]

(* The handler raised: get_db rolls the session back; nothing it held is   *)
(* written to the table.                                                   *)
Raise(r, status) == [r EXCEPT !.pc = "done", !.status = status]

(* Validation of one submitted file, lines 93-103 / 168-178. *)
validate(file) ==
  IF file.content_type \notin AllowedTypes THEN "Invalid image type"
  ELSE IF file.size > MaxImageSize THEN "Image too large"
  ELSE "ok"

(* No query has been answered yet. *)
NoReply == [fn |-> "none"]

(* create_admin_user, run by lifespan at startup: the users table holds    *)
(* the configured administrator, a super_admin, active.                    *)
create_admin_user == (1 :> [role |-> "super_admin", is_active |-> TRUE])

(* Instants are numbered by the costume inserts that have happened: the    *)
(* n-th insert happens at instant n, and next_id is the present instant.   *)
now == next_id

Init ==
  /\ costumes = <<>>
  /\ next_id = 1
  /\ uploads = {}
  /\ req = Idle
  /\ users = create_admin_user
  /\ imported_at = now
  /\ reply = NoReply
  /\ user_id_seq = 1
  /\ tokens = {}
  /\ tasks = <<>>

(* ------------------------- update_amount ------------------------------ *)
below_zero_inclusive(new_amount) == new_amount <= 0

(* if new_amount < 0: raise *)
below_zero(new_amount) == new_amount < 0

update_amount(costume_id, delta) ==
  /\ UNCHANGED beside
  /\ req.pc = "idle"
  /\ LET r == [Begin("update_amount", costume_id) EXCEPT !.data.amount = delta]
     IN  IF get_by_id(costume_id) = {}
           THEN /\ req' = Raise(r, "Costume not found")
                /\ UNCHANGED <<costumes, next_id, uploads>>
           ELSE LET new_amount == costumes[costume_id].amount + delta
                IN  IF below_zero(new_amount)
                      THEN /\ req' = Raise(r, "Cannot reduce amount below zero")
                           /\ UNCHANGED <<costumes, next_id, uploads>>
                      ELSE /\ new_amount <= MaxAmount
                           /\ costumes' = [costumes EXCEPT ![costume_id].amount = new_amount]
                           /\ req' = [r EXCEPT !.pc = "done", !.status = "ok",
                                               !.obj = costumes'[costume_id]]
                           /\ UNCHANGED <<next_id, uploads>>

attach_image_process_first(r, file, store) ==
  LET rf == [r EXCEPT !.files = Append(@, file)]
      v  == validate(file)
      p  == process_image(file, store)
  IN  IF p.raised
        THEN [req |-> Raise(rf, "Failed to process image"), uploads |-> p.uploads]
        ELSE IF v # "ok"
          THEN [req |-> Raise(rf, v), uploads |-> p.uploads]
          ELSE [req |-> [rf EXCEPT !.obj.images = Append(@, p.info), !.i = @ + 1],
                uploads |-> p.uploads]

attach_image_skip_failed(r, file, store) ==
  LET rf == [r EXCEPT !.files = Append(@, file)]
      v  == validate(file)
      p  == process_image(file, store)
  IN  IF v # "ok"
        THEN [req |-> Raise(rf, v), uploads |-> store]
        ELSE IF p.raised
          THEN [req |-> [rf EXCEPT !.i = @ + 1], uploads |-> p.uploads]
          ELSE [req |-> [rf EXCEPT !.obj.images = Append(@, p.info), !.i = @ + 1],
                uploads |-> p.uploads]

attach_image_prepend(r, file, store) ==
  LET rf == [r EXCEPT !.files = Append(@, file)]
      v  == validate(file)
      p  == process_image(file, store)
  IN  IF v # "ok"
        THEN [req |-> Raise(rf, v), uploads |-> store]
        ELSE IF p.raised
          THEN [req |-> Raise(rf, "Failed to process image"), uploads |-> p.uploads]
          ELSE [req |-> [rf EXCEPT !.obj.images = <<p.info>> \o @, !.i = @ + 1],
                uploads |-> p.uploads]

(* One pass of the image loop shared by create (lines 92-112) and update   *)
(* (lines 167-187): the file is validated, then processed, then its        *)
(* descriptor appended to the list the handler holds.                      *)
attach_image(r, file, store) ==
  LET rf == [r EXCEPT !.files = Append(@, file)]
      v  == validate(file)
      p  == process_image(file, store)
  IN  IF v # "ok"
        THEN [req |-> Raise(rf, v), uploads |-> store]
        ELSE IF p.raised
          THEN [req |-> Raise(rf, "Failed to process image"), uploads |-> p.uploads]
          ELSE [req |-> [rf EXCEPT !.obj.images = Append(@, p.info), !.i = @ + 1],
                uploads |-> p.uploads]

(* ------------------------------ create -------------------------------- *)
create(name, amount, n) ==
  /\ UNCHANGED beside
  /\ req.pc = "idle"
  /\ next_id <= MaxId
  /\ LET r == [Begin("create", 0) EXCEPT
                 !.data = [set |-> {"name", "amount"}, name |-> name, amount |-> amount],
                 !.n = n]
     IN  req' = IF Cardinality(ByName(name)) > 1
                  THEN Raise(r, "MultipleResultsFound")
                ELSE IF ByName(name) # {}
                  THEN Raise(r, "Costume with this name already exists")
                ELSE [r EXCEPT !.pc = "images", !.i = 1]
  /\ UNCHANGED <<costumes, next_id, uploads>>

create_image(file) ==
  /\ UNCHANGED beside
  /\ req.op = "create" /\ req.pc = "images" /\ req.i <= req.n
  /\ LET a == attach_image(req, file, uploads)
     IN  req' = a.req /\ uploads' = a.uploads
  /\ UNCHANGED <<costumes, next_id>>

create_commit ==
  /\ UNCHANGED beside
  /\ req.op = "create" /\ req.pc = "images" /\ req.i > req.n
  /\ LET db_costume == [name |-> req.data.name, amount |-> req.data.amount,
                        images |-> req.obj.images]
     IN  /\ costumes' = [k \in DOMAIN costumes \cup {next_id} |->
                           IF k = next_id THEN db_costume ELSE costumes[k]]
         /\ req' = [req EXCEPT !.pc = "done", !.status = "ok", !.id = next_id,
                               !.obj = db_costume]
  /\ next_id' = next_id + 1
  /\ UNCHANGED uploads

(* ------------------------------ update -------------------------------- *)
(* costume_data.dict(exclude_unset=True) followed by setattr: the fields   *)
(* the caller supplied, and only those, are set on the loaded object.      *)
update_data_with_unset(data) == {"name", "amount"}

update_data(data) == data.set

set_fields(obj, data) ==
  [obj EXCEPT !.name   = IF "name" \in update_data(data) THEN data.name ELSE @,
              !.amount = IF "amount" \in update_data(data) THEN data.amount ELSE @]

(* The UPDATE a commit flushes: the columns whose attribute was assigned.  *)
(* Costume.images is a plain JSON column, so a list changed in place is    *)
(* not seen as modified.                                                   *)
flush(row, obj, modified) ==
  [name   |-> IF "name" \in modified THEN obj.name ELSE row.name,
   amount |-> IF "amount" \in modified THEN obj.amount ELSE row.amount,
   images |-> IF "images" \in modified THEN obj.images ELSE row.images]

Kept(images, remove) == SelectSeq(images, LAMBDA img : img.hash \notin remove)

update_purging(costume_id, data, n, remove) ==
  /\ UNCHANGED beside
  /\ req.pc = "idle"
  /\ LET r == [Begin("update", costume_id) EXCEPT !.data = data, !.n = n,
                                                  !.remove = remove]
     IN  IF get_by_id(costume_id) = {}
           THEN req' = Raise(r, "Costume not found") /\ UNCHANGED uploads
           ELSE /\ Len(Kept(costumes[costume_id].images, remove)) + n <= MaxImages
                /\ req' = [r EXCEPT !.obj = set_fields(costumes[costume_id], data),
                                    !.modified = update_data(data),
                                    !.pc = IF remove # {} THEN "remove" ELSE "add",
                                    !.i = 1]
                /\ uploads' = uploads \ remove
  /\ UNCHANGED <<costumes, next_id>>

update(costume_id, data, n, remove) ==
  /\ UNCHANGED beside
  /\ req.pc = "idle"
  /\ LET r == [Begin("update", costume_id) EXCEPT !.data = data, !.n = n,
                                                  !.remove = remove]
     IN  IF get_by_id(costume_id) = {}
           THEN req' = Raise(r, "Costume not found")
           ELSE /\ Len(Kept(costumes[costume_id].images, remove)) + n <= MaxImages
                /\ req' = [r EXCEPT !.obj = set_fields(costumes[costume_id], data),
                                    !.modified = update_data(data),
                                    !.pc = IF remove # {} THEN "remove" ELSE "add",
                                    !.i = 1]
  /\ UNCHANGED <<costumes, next_id, uploads>>

update_remove(rmtree_ok) ==
  /\ UNCHANGED beside
  /\ req.op = "update" /\ req.pc = "remove" /\ req.i <= Len(req.obj.images)
  /\ LET img == req.obj.images[req.i]
         d   == delete_image(img.hash, uploads, rmtree_ok)
         rc  == [req EXCEPT !.calls = Append(@, [hash |-> img.hash,
                                                 existed |-> img.hash \in uploads,
                                                 ret |-> d.ret])]
     IN  IF img.hash \notin req.remove
           THEN /\ req' = [req EXCEPT !.keep = Append(@, img), !.i = @ + 1]
                /\ UNCHANGED uploads
           ELSE /\ uploads' = d.uploads
                /\ req' = IF d.ret = "OSError" THEN Raise(rc, "OSError")
                          ELSE [rc EXCEPT !.i = @ + 1]
  /\ UNCHANGED <<costumes, next_id>>

(* costume.images = images_to_keep: an assignment, which the session sees. *)
update_assign ==
  /\ UNCHANGED beside
  /\ req.op = "update" /\ req.pc = "remove" /\ req.i > Len(req.obj.images)
  /\ req' = [req EXCEPT !.obj.images = req.keep,
                        !.modified = @ \cup {"images"},
                        !.pc = "add", !.i = 1]
  /\ UNCHANGED <<costumes, next_id, uploads>>

update_add(file) ==
  /\ UNCHANGED beside
  /\ req.op = "update" /\ req.pc = "add" /\ req.i <= req.n
  /\ LET a == attach_image(req, file, uploads)
     IN  req' = a.req /\ uploads' = a.uploads
  /\ UNCHANGED <<costumes, next_id>>

(* db.commit() then db.refresh(costume): the object returned is the row. *)
update_commit ==
  /\ UNCHANGED beside
  /\ req.op = "update" /\ req.pc = "add" /\ req.i > req.n
  /\ costumes' = [costumes EXCEPT ![req.id] = flush(@, req.obj, req.modified)]
  /\ req' = [req EXCEPT !.pc = "done", !.status = "ok", !.obj = costumes'[req.id]]
  /\ UNCHANGED <<next_id, uploads>>

(* ------------------------------ delete -------------------------------- *)
delete(costume_id) ==
  /\ UNCHANGED beside
  /\ req.pc = "idle"
  /\ LET r == Begin("delete", costume_id)
     IN  req' = IF get_by_id(costume_id) = {}
                  THEN Raise(r, "Costume not found")
                  ELSE [r EXCEPT !.obj = costumes[costume_id], !.pc = "images", !.i = 1]
  /\ UNCHANGED <<costumes, next_id, uploads>>

delete_loop(rmtree_ok) ==
  /\ UNCHANGED beside
  /\ req.op = "delete" /\ req.pc = "images" /\ req.i <= Len(req.obj.images)
  /\ LET img == req.obj.images[req.i]
         d   == delete_image(img.hash, uploads, rmtree_ok)
         rc  == [req EXCEPT !.calls = Append(@, [hash |-> img.hash,
                                                 existed |-> img.hash \in uploads,
                                                 ret |-> d.ret])]
     IN  /\ uploads' = d.uploads
         /\ req' = IF d.ret = "OSError" THEN Raise(rc, "OSError")
                   ELSE [rc EXCEPT !.i = @ + 1]
  /\ UNCHANGED <<costumes, next_id>>

delete_commit_early ==
  /\ UNCHANGED beside
  /\ req.op = "delete" /\ req.pc = "images"
  /\ costumes' = [k \in DOMAIN costumes \ {req.id} |-> costumes[k]]
  /\ req' = [req EXCEPT !.pc = "done", !.status = "ok"]
  /\ UNCHANGED <<next_id, uploads>>

delete_commit ==
  /\ UNCHANGED beside
  /\ req.op = "delete" /\ req.pc = "images" /\ req.i > Len(req.obj.images)
  /\ costumes' = [k \in DOMAIN costumes \ {req.id} |-> costumes[k]]
  /\ req' = [req EXCEPT !.pc = "done", !.status = "ok"]
  /\ UNCHANGED <<next_id, uploads>>

(* get_db: the response is sent and the session closed. *)
get_db_close ==
  /\ UNCHANGED beside
  /\ req.pc = "done"
  /\ req' = Idle
  /\ UNCHANGED <<costumes, next_id, uploads>>

(* --------------------------- specifications --------------------------- *)
(* Spec: the image side of the lifecycle.  Costumes are created with the   *)
(* default amount and updates carry images only: up to MaxImages files in  *)
(* a create, up to MaxAdded in an update.                                  *)
Next ==
  \/ \E name \in Names, n \in 0..MaxImages : create(name, DefaultAmount, n)
  \/ \E file \in Uploads : create_image(file)
  \/ create_commit
  \/ \E costume_id \in Ids, n \in 0..MaxAdded, remove \in SUBSET RemovableHashes :
       update(costume_id, NoData, n, remove)
  \/ \E rmtree_ok \in BOOLEAN : update_remove(rmtree_ok)
  \/ update_assign
  \/ \E file \in Uploads : update_add(file)
  \/ update_commit
  \/ \E costume_id \in Ids : delete(costume_id)
  \/ \E rmtree_ok \in BOOLEAN : delete_loop(rmtree_ok)
  \/ delete_commit
  \/ get_db_close

Spec == Init /\ [][Next]_vars

(* SpecInventory: the field side.  No request carries images; creates and  *)
(* updates carry names and amounts, and amounts are adjusted by deltas.    *)
UpdateData ==
  { [set |-> s, name |-> IF "name" \in s THEN nm ELSE "",
     amount |-> IF "amount" \in s THEN am ELSE 0] :
      s \in SUBSET {"name", "amount"}, nm \in Names, am \in 0..MaxAmount }

NextInventory ==
  \/ \E name \in Names, amount \in 0..MaxAmount : create(name, amount, 0)
  \/ create_commit
  \/ \E costume_id \in Ids, data \in UpdateData : update(costume_id, data, 0, {})
  \/ update_commit
  \/ \E costume_id \in Ids, delta \in Deltas : update_amount(costume_id, delta)
  \/ \E costume_id \in Ids : delete(costume_id)
  \/ delete_commit
  \/ get_db_close

SpecInventory == Init /\ [][NextInventory]_vars

(* ------------------------------ claims -------------------------------- *)
(* A handler `op` has finished and its response is about to be sent. *)
Done(op) == req.pc = "done" /\ req.op = op

(* The costume the finished request addressed existed when it started. *)
Existed == req.id \in DOMAIN req.start.costumes

(* C1: for an existing costume with stored amount a and any delta,         *)
(* update_amount fails with "Cannot reduce amount below zero" and leaves   *)
(* the table as it was when a + delta < 0, and otherwise succeeds and      *)
(* stores exactly a + delta (so -a gives 0 and -(a+1) fails).              *)
C1_AdjustAmount ==
  (Done("update_amount") /\ Existed) =>
    LET a     == req.start.costumes[req.id].amount
        delta == req.data.amount
    IN  IF a + delta < 0
          THEN /\ req.status = "Cannot reduce amount below zero"
               /\ costumes = req.start.costumes
          ELSE /\ req.status = "ok"
               /\ costumes = [req.start.costumes EXCEPT ![req.id].amount = a + delta]

(* C1 witness: a costume holding a >= 1 was asked for -(a+1); the request  *)
(* failed and the amount is still a.                                       *)
C1_Witness ==
  /\ Done("update_amount") /\ Existed
  /\ req.start.costumes[req.id].amount >= 1
  /\ req.data.amount = 0 - (req.start.costumes[req.id].amount + 1)
  /\ req.status = "Cannot reduce amount below zero"
  /\ costumes[req.id].amount = req.start.costumes[req.id].amount

(* The costumes that exist both before and after the finished request. *)
Surviving == DOMAIN costumes \cap DOMAIN req.start.costumes

(* C2 as stated: no operation other than update_amount changes the stored  *)
(* amount of a costume that already exists.                                *)
C2_OnlyAdjustAmount ==
  (req.pc = "done" /\ req.op # "update_amount") =>
    \A k \in Surviving : costumes[k].amount = req.start.costumes[k].amount

(* C2 amended: besides update_amount, the stored amount of an existing     *)
(* costume changes only by an update that supplies an amount, and then to  *)
(* exactly that amount; an update that supplies no amount leaves it alone. *)
C2_AmountFrame ==
  (req.pc = "done" /\ req.op # "update_amount") =>
    \A k \in Surviving :
      costumes[k].amount # req.start.costumes[k].amount =>
        /\ req.op = "update" /\ k = req.id
        /\ "amount" \in req.data.set
        /\ costumes[k].amount = req.data.amount

(* C2 witness: an update that supplied a name and no amount went through   *)
(* on a costume with a non-zero amount; the name changed, the amount did   *)
(* not.                                                                    *)
C2_Witness ==
  /\ Done("update") /\ req.status = "ok"
  /\ req.data.set = {"name"}
  /\ costumes[req.id].name # req.start.costumes[req.id].name
  /\ costumes[req.id].amount = req.start.costumes[req.id].amount
  /\ costumes[req.id].amount > 0

(* C3 as stated: in every reachable state no two costume records have the  *)
(* same name.                                                              *)
C3_UniqueNames ==
  \A j, k \in DOMAIN costumes : j # k => costumes[j].name # costumes[k].name

(* The hash directory a submitted file is stored under. *)
HashOf(file) == calculate_hash(file.content)

(* The delete_image calls of the request in flight that returned `ret`. *)
CallsReturning(ret) == {k \in 1..Len(req.calls) : req.calls[k].ret = ret}

(* C4: delete_image on a hash whose directory does not exist returns False *)
(* and changes nothing in the store; on one whose directory exists (and    *)
(* rmtree does not fail) it removes the directory and returns True, and an *)
(* immediately repeated delete_image of the same hash returns False.       *)
C4_DeleteImage ==
  /\ \A k \in 1..Len(req.calls) :
       LET c == req.calls[k]
       IN  /\ ~c.existed => c.ret = "False"
           /\ (c.existed /\ c.ret # "OSError") => c.ret = "True"
           /\ (k < Len(req.calls) /\ c.ret = "True" /\ req.calls[k + 1].hash = c.hash)
                => req.calls[k + 1].ret = "False"
  /\ (req.op = "delete" \/ (req.op = "update" /\ req.pc = "remove")) =>
       uploads = req.start.uploads \ {req.calls[k].hash : k \in CallsReturning("True")}

(* C4 witness: a costume owning two images of identical content was        *)
(* deleted; the first delete_image found the directory and returned True,  *)
(* the repeated one found none and returned False.                         *)
C4_Witness ==
  /\ Done("delete") /\ Len(req.calls) = 2
  /\ req.calls[1].hash = req.calls[2].hash
  /\ req.calls[1].existed /\ req.calls[1].ret = "True"
  /\ ~req.calls[2].existed /\ req.calls[2].ret = "False"

(* The descriptors the addressed costume owned when the request started. *)
Owned == req.start.costumes[req.id].images

(* C5: after delete(id) succeeds the record no longer exists and no hash   *)
(* directory named by a descriptor it owned exists; the directories are    *)
(* removed before the record: while they are being removed the record is   *)
(* still there, and once it is gone so are they.                           *)
C5_DeleteRemovesImages ==
  /\ (Done("delete") /\ req.status = "ok") => req.id \notin DOMAIN costumes
  /\ (req.op = "delete" /\ req.pc = "images") => req.id \in DOMAIN costumes
  /\ (req.op = "delete" /\ Existed /\ req.id \notin DOMAIN costumes) =>
       \A k \in 1..Len(Owned) : Owned[k].hash \notin uploads

(* C5 witness: a delete succeeded on a costume that owned an image whose   *)
(* directory existed when the delete started.                              *)
C5_Witness ==
  /\ Done("delete") /\ req.status = "ok"
  /\ Len(Owned) >= 1 /\ Owned[1].hash \in req.start.uploads
  /\ Owned[1].hash \notin uploads

(* C6 as stated: if removing the hash directory of one owned image raises, *)
(* delete(id) still attempts every owned image and still deletes the       *)
(* record.                                                                 *)
C6_BestEffortDelete ==
  (Done("delete") /\ CallsReturning("OSError") # {}) =>
    /\ Len(req.calls) = Len(Owned)
    /\ req.id \notin DOMAIN costumes

(* The submitted files of the request that fail the type or size check. *)
Offending == {k \in 1..Len(req.files) : validate(req.files[k]) # "ok"}

Unprocessable ==
  {k \in 1..Len(req.files) :
     validate(req.files[k]) = "ok" /\ process_image(req.files[k], uploads).raised}

(* C8: if process_image raises for the k-th image of a create request, the *)
(* create fails, no record is created, and the hash directories of the k-1 *)
(* images ingested before it remain in the store.                          *)
C8_ProcessFailure ==
  (req.op = "create" /\ Unprocessable # {}) =>
    LET k == Len(req.files)
    IN  /\ Unprocessable = {k}
        /\ req.pc = "done" /\ req.status = "Failed to process image"
        /\ costumes = req.start.costumes
        /\ \A j \in 1..(k - 1) : HashOf(req.files[j]) \in uploads

(* C8 witness: process_image raised on the second image of a create whose  *)
(* first image made a directory that did not exist before; the directory   *)
(* is still there.                                                         *)
C8_Witness ==
  /\ Done("create") /\ req.status = "Failed to process image"
  /\ Len(req.files) = 2 /\ Unprocessable = {2}
  /\ HashOf(req.files[1]) \notin req.start.uploads
  /\ HashOf(req.files[1]) \in uploads
  /\ costumes = req.start.costumes

(* The descriptors process_image returns for a list of files, in order. *)
Descriptors(files) == [k \in 1..Len(files) |-> process_image(files[k], {}).info]

(* C9: when create succeeds with n submitted images the new costume holds  *)
(* exactly n descriptors, the i-th being the one process_image returned    *)
(* for the i-th submitted file.                                            *)
C9_CreateAttachesInOrder ==
  (Done("create") /\ req.status = "ok") =>
    /\ Len(req.files) = req.n
    /\ Len(costumes[req.id].images) = req.n
    /\ \A k \in 1..req.n : costumes[req.id].images[k] = Descriptors(req.files)[k]

(* C9 witness: a create with two different images succeeded. *)
C9_Witness ==
  /\ Done("create") /\ req.status = "ok" /\ req.n = 2
  /\ req.files[1] # req.files[2]
  /\ Len(costumes[req.id].images) = 2

(* C10 as stated: a successful update has deleted the directory of every   *)
(* owned descriptor whose hash is in remove before ingesting the added     *)
(* images (so a hash both removed and added again is in the store), and    *)
(* the persisted image list is the owned descriptors not removed, in their *)
(* order, followed by the descriptors of the added images in their order.  *)
C10_UpdateImages ==
  (Done("update") /\ req.status = "ok") =>
    /\ \A k \in 1..Len(Owned) :
         (Owned[k].hash \in req.remove
            /\ Owned[k].hash \notin {HashOf(req.files[j]) : j \in 1..Len(req.files)})
           => Owned[k].hash \notin uploads
    /\ \A j \in 1..Len(req.files) : HashOf(req.files[j]) \in uploads
    /\ costumes[req.id].images = Kept(Owned, req.remove) \o Descriptors(req.files)

(* The hashes of the descriptors the addressed costume owned. *)
OwnedHashes == {Owned[k].hash : k \in 1..Len(Owned)}

(* C11: an update whose remove list names only hashes that match no owned  *)
(* descriptor is a no-op for the images: the removal raises nothing and    *)
(* calls delete_image for nothing, so every directory that was in the      *)
(* store is still there (also one of that hash owned by another costume),  *)
(* and the persisted list is the owned descriptors as they were, followed  *)
(* only by what the same request added; with nothing added the request     *)
(* succeeds and leaves table and store as they were.                       *)
C11_UnknownHashesNoOp ==
  (Done("update") /\ Existed /\ req.remove # {} /\ req.remove \cap OwnedHashes = {}) =>
    /\ req.calls = <<>> /\ req.status # "OSError"
    /\ req.start.uploads \subseteq uploads
    /\ req.status = "ok" =>
         costumes[req.id].images = Owned \o Descriptors(req.files)
    /\ req.n = 0 =>
         /\ req.status = "ok"
         /\ costumes = req.start.costumes
         /\ uploads = req.start.uploads

(* C11 witness: an update of a costume named for removal only a hash it    *)
(* did not own while another costume owned an image of that hash; the      *)
(* directory is still in the store and both image lists are as before.     *)
C11_Witness ==
  /\ Done("update") /\ req.status = "ok" /\ req.n = 0
  /\ req.remove # {} /\ req.remove \cap OwnedHashes = {}
  /\ \E k \in DOMAIN costumes \ {req.id} :
       /\ Len(costumes[k].images) >= 1
       /\ costumes[k].images[1].hash \in req.remove
       /\ costumes[k].images[1].hash \in uploads
  /\ costumes = req.start.costumes

(* ---------------------- requests side by side ------------------------- *)
(* Each request is a task with a session of its own (get_db); tasks give   *)
(* way to each other at every await.  update_amount awaits twice: on the   *)
(* SELECT of get_by_id and on commit, which flushes                        *)
(* UPDATE costumes SET amount = new_amount and commits it.  The SELECT     *)
(* takes no lock (no with_for_update) and the engine sets no isolation     *)
(* level, so another session may commit between the two.  An attribute set *)
(* to the value it was loaded with has no net change and flushes nothing.  *)
update_amount_get_by_id(costume_id, delta) ==
  /\ req.pc = "idle"
  /\ Len(tasks) < MaxTasks
  /\ tasks' = Append(tasks,
       IF get_by_id(costume_id) = {}
         THEN [pc |-> "done", id |-> costume_id, delta |-> delta, amount |-> 0,
               status |-> "Costume not found"]
         ELSE [pc |-> "loaded", id |-> costume_id, delta |-> delta,
               amount |-> costumes[costume_id].amount, status |-> ""])
  /\ UNCHANGED <<costumes, next_id, uploads, req, users, imported_at, reply,
                 user_id_seq, tokens>>

update_amount_commit(t) ==
  /\ t \in 1..Len(tasks)
  /\ tasks[t].pc = "loaded"
  /\ LET new_amount == tasks[t].amount + tasks[t].delta
     IN  IF below_zero(new_amount)
           THEN /\ tasks' = [tasks EXCEPT ![t].pc = "done",
                                          ![t].status = "Cannot reduce amount below zero"]
                /\ UNCHANGED costumes
           ELSE /\ new_amount <= MaxAmount
                /\ costumes' = IF new_amount = tasks[t].amount THEN costumes
                               ELSE [costumes EXCEPT ![tasks[t].id].amount = new_amount]
                /\ tasks' = [tasks EXCEPT ![t].pc = "done", ![t].status = "ok"]
  /\ UNCHANGED <<next_id, uploads, req, users, imported_at, reply, user_id_seq, tokens>>

(* Every response has been sent and every session closed. *)
sessions_closed ==
  /\ tasks # <<>>
  /\ \A t \in 1..Len(tasks) : tasks[t].pc = "done"
  /\ tasks' = <<>>
  /\ UNCHANGED <<costumes, next_id, uploads, req, users, imported_at, reply,
                 user_id_seq, tokens>>

(* SpecAdjust: costumes are created one at a time, and up to MaxTasks      *)
(* adjustAmount requests run side by side.                                 *)
NextAdjust ==
  \/ \E name \in Names, amount \in 0..MaxAmount : create(name, amount, 0)
  \/ create_commit
  \/ get_db_close
  \/ \E costume_id \in Ids, delta \in Deltas : update_amount_get_by_id(costume_id, delta)
  \/ \E t \in 1..MaxTasks : update_amount_commit(t)
  \/ sessions_closed

SpecAdjust == Init /\ [][NextAdjust]_vars

(* ------------------ claims on requests side by side ------------------- *)
RECURSIVE Granted(_)
(* The sum of the deltas of the first k requests that answered ok. *)
Granted(k) ==
  IF k = 0 THEN 0
  ELSE Granted(k - 1) + (IF tasks[k].status = "ok" THEN tasks[k].delta ELSE 0)

(* At least two requests ran, all have answered, and all were about one    *)
(* costume that exists; the first of them read the amount before any of    *)
(* them wrote.                                                             *)
Settled ==
  /\ Len(tasks) >= 2
  /\ \A t \in 1..Len(tasks) :
       tasks[t].pc = "done" /\ tasks[t].id = tasks[1].id /\ tasks[t].status # "Costume not found"

(* C28 as stated: however adjustAmount requests on one costume interleave, *)
(* the amount stored in the end is the amount stored at the start plus the *)
(* deltas of the requests that answered ok, and it is not negative.        *)
C28_NoLostAdjustment ==
  Settled =>
    /\ costumes[tasks[1].id].amount = tasks[1].amount + Granted(Len(tasks))
    /\ costumes[tasks[1].id].amount >= 0

(* -------------------- claims on the shared store ---------------------- *)
(* The directories the files of the finished request were written to. *)
Ingested == {HashOf(req.files[k]) : k \in 1..Len(req.files)}

Integrity(table, store) ==
  \A k \in DOMAIN table :
    \A j \in 1..Len(table[k].images) : table[k].images[j].hash \in store

(* C26 as stated: successful creates, updates and deletes keep every       *)
(* descriptor of an existing costume naming a directory that exists: a     *)
(* request that started where this held and succeeded ends where it holds. *)
C26_ReferentialIntegrity ==
  (/\ req.pc = "done" /\ req.status = "ok"
   /\ req.op \in {"create", "update", "delete"}
   /\ Integrity(req.start.costumes, req.start.uploads))
    => Integrity(costumes, uploads)

(* C27 as stated: an update that ran its removal phase and then fails      *)
(* while adding images (type not allowed, too large, or processing failed) *)
(* leaves the persisted image list of the costume and the set of hash      *)
(* directories as they were when it started.                               *)
C27_UpdateTransactional ==
  (/\ Done("update") /\ Existed
   /\ req.remove # {}
   /\ req.status \in {"Invalid image type", "Image too large", "Failed to process image"})
    => /\ costumes[req.id].images = req.start.costumes[req.id].images
       /\ uploads = req.start.uploads

(* ------------------------- image variants ----------------------------- *)
(* ImageProcessor.variants: the nine (size class, format) slots, in the    *)
(* order process_image and get_image_urls walk them.                       *)
self_variants ==
  << [format |-> "webp", width |-> 200, height |-> 200, quality |-> 80, suffix |-> "_thumb"],
     [format |-> "avif", width |-> 200, height |-> 200, quality |-> 80, suffix |-> "_thumb"],
     [format |-> "jpg", width |-> 200, height |-> 200, quality |-> 80, suffix |-> "_thumb"],
     [format |-> "webp", width |-> 800, height |-> 800, quality |-> 85, suffix |-> "_medium"],
     [format |-> "avif", width |-> 800, height |-> 800, quality |-> 85, suffix |-> "_medium"],
     [format |-> "jpg", width |-> 800, height |-> 800, quality |-> 85, suffix |-> "_medium"],
     [format |-> "webp", width |-> 1920, height |-> 1920, quality |-> 90, suffix |-> "_large"],
     [format |-> "avif", width |-> 1920, height |-> 1920, quality |-> 90, suffix |-> "_large"],
     [format |-> "jpg", width |-> 1920, height |-> 1920, quality |-> 90, suffix |-> "_large"] >>

Slots == 1..Len(self_variants)

(* A file name is the sequence of its dot-separated parts.  The names a    *)
(* client may give an upload: with one extension, with none, with two.     *)
OriginalNames == { <<"a", "jpg">>, <<"photo">>, <<"b", "tar", "gz">> }

(* Path(original_name).stem: the name without its last extension. *)
stem(original_name) ==
  IF Len(original_name) > 1 THEN SubSeq(original_name, 1, Len(original_name) - 1)
  ELSE original_name

(* _generate_filename: f"{stem}{suffix}.{format}" *)
generate_filename(original_name, variant) ==
  [stem |-> stem(original_name), suffix |-> variant.suffix, ext |-> variant.format]

(* Path.with_suffix: the last extension replaced. *)
with_suffix(filename, ext) == [filename EXCEPT !.ext = ext]

Abs(x) == IF x < 0 THEN 0 - x ELSE x
Max(x, y) == IF x >= y THEN x ELSE y
Min(x, y) == IF x <= y THEN x ELSE y

(* Sides an original may have: below, at and above each size class bound. *)
Sides == {1, 200, 300, 1921, 4000}

thumbnail_fill(width, height, x, y) ==
  IF x * height >= y * width
    THEN [width |-> Max((y * width) \div height, 1), height |-> y]
    ELSE [width |-> x, height |-> Max((x * height) \div width, 1)]

(* PIL Image.thumbnail((x, y)) on an image width x height: nothing if the  *)
(* image fits the box; otherwise the side that overflows most is set to    *)
(* the box and the other to floor or ceiling of the proportional length,   *)
(* whichever keeps the aspect ratio closer (floor on a tie), at least 1.   *)
(* The ratios are compared exactly, cross-multiplied.                      *)
thumbnail(width, height, x, y) ==
  IF x >= width /\ y >= height THEN [width |-> width, height |-> height]
  ELSE IF x * height >= y * width
    THEN LET fl == (y * width) \div height
             ce == IF (y * width) % height = 0 THEN fl ELSE fl + 1
             n  == IF Abs(width * y - fl * height) <= Abs(width * y - ce * height)
                     THEN fl ELSE ce
         IN  [width |-> Max(n, 1), height |-> y]
    ELSE LET fl == (x * height) \div width
             ce == IF (x * height) % width = 0 THEN fl ELSE fl + 1
             n  == IF fl = 0 THEN fl
                   ELSE IF Abs(width * fl - x * height) * ce
                             <= Abs(width * ce - x * height) * fl
                     THEN fl ELSE ce
         IN  [width |-> x, height |-> Max(n, 1)]

(* How the encoders may behave on the nine slots: a save succeeds ("ok")   *)
(* or raises ("fail"); an AVIF save may also raise and the WEBP save that  *)
(* replaces it succeed ("fallback").                                       *)
Encodings ==
  { e \in [Slots -> {"ok", "fallback", "fail"}] :
      \A k \in Slots : e[k] = "fallback" => self_variants[k].format = "avif" }

(* The record process_image appends for one slot once its save succeeded   *)
(* (`size`, the byte count of the written file, is left out).  After the   *)
(* fallback the file is written at the path with the extension replaced,   *)
(* and "format" is still read from the slot.                               *)
variant_record(variant, image, image_hash, original_name, outcome) ==
  LET img_copy     == thumbnail(image.width, image.height, variant.width, variant.height)
      filename     == generate_filename(original_name, variant)
      variant_path == IF outcome = "fallback" THEN with_suffix(filename, "webp")
                      ELSE filename
  IN  [format  |-> variant.format,
       width   |-> img_copy.width,
       height  |-> img_copy.height,
       quality |-> variant.quality,
       path    |-> [dir |-> image_hash, name |-> variant_path],
       suffix  |-> variant.suffix]

Attempted(image, image_hash, original_name, enc) ==
  [k \in Slots |->
     [slot |-> k,
      record |-> variant_record(self_variants[k], image, image_hash, original_name, enc[k])]]

variants_created_fatal(image, image_hash, original_name, enc) ==
  LET kept == SelectSeq(Attempted(image, image_hash, original_name, enc),
                        LAMBDA a : \A k \in 1..a.slot : enc[k] # "fail")
  IN  [k \in 1..Len(kept) |-> kept[k].record]

(* The variant loop of process_image: each slot is tried in turn inside    *)
(* its own try; a slot whose save raised is logged and skipped.            *)
variants_created(image, image_hash, original_name, enc) ==
  LET kept == SelectSeq(Attempted(image, image_hash, original_name, enc),
                        LAMBDA a : enc[a.slot] # "fail")
  IN  [k \in 1..Len(kept) |-> kept[k].record]

(* variant['suffix'][1:] *)
size_class(suffix) ==
  IF suffix = "_thumb" THEN "thumb" ELSE IF suffix = "_medium" THEN "medium" ELSE "large"

(* dict item assignment: d[key] = value *)
setitem(d, key, value) ==
  [x \in DOMAIN d \cup {key} |-> IF x = key THEN value ELSE d[x]]

(* The loop of get_image_urls from slot k on: each pass assigns the size   *)
(* class key a new one-entry dict {format: url}.                           *)
RECURSIVE url_loop(_, _, _, _)
url_loop(k, variants, image_hash, original_name) ==
  IF k > Len(self_variants) THEN variants
  ELSE LET variant == self_variants[k]
           url == [base |-> "/uploads", dir |-> image_hash,
                   name |-> generate_filename(original_name, variant)]
       IN  url_loop(k + 1,
                    setitem(variants, size_class(variant.suffix),
                            setitem(<<>>, variant.format, url)),
                    image_hash, original_name)

(* ImageProcessor.get_image_urls *)
get_image_urls(image_hash, original_name) ==
  [original |-> [base |-> "/uploads", dir |-> image_hash, name |-> original_name],
   variants |-> url_loop(1, <<>>, image_hash, original_name)]

(* A decodable upload of some name and size goes through the variant loop *)
(* under some behaviour of the encoders.                                   *)
call_process_image ==
  /\ reply = NoReply
  /\ \E original_name \in OriginalNames, width \in Sides, height \in Sides,
        enc \in Encodings :
       reply' = [fn |-> "process_image",
                 args |-> [original_name |-> original_name, width |-> width,
                           height |-> height, enc |-> enc],
                 result |-> [original_name |-> original_name,
                             hash |-> calculate_hash(1),
                             variants |-> variants_created(
                                            [width |-> width, height |-> height],
                                            calculate_hash(1), original_name, enc)]]
  /\ UNCHANGED <<costumes, next_id, uploads, req, users, imported_at, outside>>

call_get_image_urls ==
  /\ reply = NoReply
  /\ \E image_hash \in RemovableHashes, original_name \in OriginalNames :
       reply' = [fn |-> "get_image_urls",
                 args |-> [image_hash |-> image_hash, original_name |-> original_name],
                 result |-> get_image_urls(image_hash, original_name)]
  /\ UNCHANGED <<costumes, next_id, uploads, req, users, imported_at, outside>>

(* The caller has taken the returned value; the next call can be made. *)
returned ==
  /\ reply # NoReply
  /\ reply' = NoReply
  /\ UNCHANGED <<costumes, next_id, uploads, req, users, imported_at, outside>>

(* SpecImages: the image processor's functions applied to every input.     *)
NextImages ==
  \/ call_process_image
  \/ call_get_image_urls
  \/ returned

SpecImages == Init /\ [][NextImages]_vars

(* ---------------------- claims on the variants ------------------------ *)
ProcessReplied == reply.fn = "process_image"

(* The slots of the replied call whose try block raised. *)
Failed == {k \in Slots : reply.args.enc[k] = "fail"}

(* The records of the replied descriptor that belong to slot k. *)
RecordsOf(k) ==
  {j \in 1..Len(reply.result.variants) :
     /\ reply.result.variants[j].suffix = self_variants[k].suffix
     /\ reply.result.variants[j].format = self_variants[k].format}

(* The records of the replied descriptor of the size class of slot k. *)
RecordsOfClass(k) ==
  {j \in 1..Len(reply.result.variants) :
     reply.result.variants[j].suffix = self_variants[k].suffix}

(* C12 as stated: when the AVIF save of a slot fails and WEBP is written   *)
(* instead, the descriptor holds for that size class a record of a .webp   *)
(* file with the slot's dimensions and quality whose format field is webp, *)
(* and the slot leaves no record whose format field is avif.               *)
C12_FallbackFormat ==
  ProcessReplied =>
    \A k \in Slots :
      reply.args.enc[k] = "fallback" =>
        LET box == thumbnail(reply.args.width, reply.args.height,
                             self_variants[k].width, self_variants[k].height)
            written == {j \in RecordsOfClass(k) :
                          /\ reply.result.variants[j].path.name.ext = "webp"
                          /\ reply.result.variants[j].width = box.width
                          /\ reply.result.variants[j].height = box.height
                          /\ reply.result.variants[j].quality = self_variants[k].quality}
        IN  /\ written # {}
            /\ \A j \in RecordsOfClass(k) :
                 reply.result.variants[j].path.name.ext = "webp"
                   => reply.result.variants[j].format = "webp"
            /\ \A j \in RecordsOfClass(k) : reply.result.variants[j].format # "avif"

(* C13: a slot that cannot be produced is never fatal: whatever set F of   *)
(* the nine slots fails, process_image returns a descriptor with exactly   *)
(* one record for each slot outside F and none for a slot in F, so at most *)
(* nine records and at most one per slot.  (A slot whose AVIF save failed  *)
(* and whose WEBP replacement was written has not failed.)                 *)
C13_FailedSlotsSkipped ==
  ProcessReplied =>
    /\ \A k \in Slots \ Failed : Cardinality(RecordsOf(k)) = 1
    /\ \A k \in Failed : RecordsOf(k) = {}
    /\ Len(reply.result.variants) = Len(self_variants) - Cardinality(Failed)
    /\ \A j \in 1..Len(reply.result.variants) : \E k \in Slots : j \in RecordsOf(k)

(* C13 witness: the first slot and two others failed, one of each format;  *)
(* the descriptor came back with the six other records.                    *)
C13_Witness ==
  /\ ProcessReplied
  /\ Failed = {1, 5, 9}
  /\ Len(reply.result.variants) = 6
  /\ \A k \in Slots \ Failed : Cardinality(RecordsOf(k)) = 1

(* C14: for an original of w x h and a size class of bound B, every        *)
(* variant record of that class has width <= min(w, B) and height <=       *)
(* min(h, B): variants are never larger than the original.                 *)
C14_NeverUpscaled ==
  ProcessReplied =>
    \A k \in Slots : \A j \in RecordsOf(k) :
      /\ reply.result.variants[j].width
           <= Min(reply.args.width, self_variants[k].width)
      /\ reply.result.variants[j].height
           <= Min(reply.args.height, self_variants[k].height)
      /\ reply.result.variants[j].width >= 1
      /\ reply.result.variants[j].height >= 1

(* C14 witness: an original between two bounds, wider than high: its thumb *)
(* record is scaled down to the bound, its medium record has the           *)
(* original's own size.                                                    *)
C14_Witness ==
  /\ ProcessReplied /\ Failed = {}
  /\ reply.args.width = 300 /\ reply.args.height = 200
  /\ reply.result.variants[1].width = 200
  /\ reply.result.variants[1].height = 133
  /\ reply.result.variants[4].width = 300
  /\ reply.result.variants[4].height = 200

(* C15 as stated: get_image_urls returns the original's URL and a variants *)
(* map that gives, for each of the three size classes, a URL for each of   *)
(* the three formats webp, avif and jpg: nine URLs.                        *)
C15_NineUrls ==
  reply.fn = "get_image_urls" =>
    /\ reply.result.original.name = reply.args.original_name
    /\ DOMAIN reply.result.variants = {"thumb", "medium", "large"}
    /\ \A c \in DOMAIN reply.result.variants :
         DOMAIN reply.result.variants[c] = {"webp", "avif", "jpg"}

(* ------------------------------ catalogue ----------------------------- *)
(* The listing side.  Here a row carries, besides name, amount and images, *)
(* the columns the queries read: tags, related_costumes, created_at and    *)
(* is_active.  An optional value is the empty set (None) or a singleton.   *)
None == {}
Some(v) == {v}

TagLists == { <<>>, <<"A">>, <<"A", "B">>, <<"B">> }
RelatedLists == { <<>>, <<1>>, <<2>> }

(* The letters of the names, for the substring tests. *)
Spelling(name) ==
  IF name = "Witch" THEN <<"W", "i", "t", "c", "h">>
  ELSE IF name = "Elf" THEN <<"E", "l", "f">>
  ELSE <<>>

(* The texts a caller may search for. *)
Queries == { <<"e">>, <<"L", "F">>, <<"c", "_">>, <<"x">> }

lower(c) ==
  IF c = "W" THEN "w" ELSE IF c = "E" THEN "e" ELSE IF c = "L" THEN "l"
  ELSE IF c = "F" THEN "f" ELSE c

(* column ILIKE '%q%': q occurs in the text, letter case ignored; "_" in q *)
(* stands for any one character ("%" is not among the letters used).       *)
ilike(text, q) ==
  \E i \in 0..(Len(text) - Len(q)) :
    \A j \in 1..Len(q) : q[j] = "_" \/ lower(q[j]) = lower(text[i + j])

Range(f) == {f[x] : x \in DOMAIN f}

(* Costume.tags.contains([tag]): tags @> ARRAY[tag] *)
contains(tags, tag) == tag \in Range(tags)

tags_condition_any(row, tags) == \E k \in 1..Len(tags) : contains(row.tags, tags[k])

(* for tag in filters.tags: conditions.append(Costume.tags.contains([tag])) *)
tags_condition(row, tags) == \A k \in 1..Len(tags) : contains(row.tags, tags[k])

(* CostumeFilter(...) with the fields this model carries. *)
CostumeFilter(name, tags, is_active) ==
  [name |-> name, tags |-> tags, is_active |-> is_active]

(* The conjunction get_multi builds, for one row: a condition is appended  *)
(* for a name and a tag list that are truthy (not None, not empty) and for *)
(* an is_active that is not None; no filters object, no condition.         *)
conditions(row, filters) ==
  \A f \in filters :
    /\ \A name \in f.name : name # <<>> => ilike(Spelling(row.name), name)
    /\ \A tags \in f.tags : tags # <<>> => tags_condition(row, tags)
    /\ \A is_active \in f.is_active : row.is_active = is_active

(* The orders in which a query may deliver the rows `ids`: every           *)
(* arrangement when the query has no ORDER BY, and with ORDER BY           *)
(* created_at DESC every arrangement in which created_at never increases   *)
(* (rows of equal created_at come in an order the database chooses).       *)
Arrangements(ids, ordered) ==
  { o \in [1..Cardinality(ids) -> ids] :
      /\ \A p, q \in 1..Cardinality(ids) : p # q => o[p] # o[q]
      /\ ordered => \A p, q \in 1..Cardinality(ids) :
                      p < q => costumes[o[p]].created_at >= costumes[o[q]].created_at }

(* .offset(skip).limit(limit) *)
offset_limit(rows, skip, limit) == SubSeq(rows, skip + 1, Min(skip + limit, Len(rows)))

(* The objects a query returns for the ids `o`, in that order. *)
Loaded(o) == [k \in 1..Len(o) |-> [id |-> o[k]] @@ costumes[o[k]]]

(* CostumeCRUD.get_multi: what it may return. *)
get_multi(skip, limit, filters) ==
  { offset_limit(Loaded(o), skip, limit) :
      o \in Arrangements({i \in DOMAIN costumes : conditions(costumes[i], filters)}, TRUE) }

(* CostumeCRUD.search: what it may return. *)
search(query, skip, limit) ==
  { offset_limit(Loaded(o), skip, limit) :
      o \in Arrangements({i \in DOMAIN costumes :
                            /\ ilike(Spelling(costumes[i].name), query)
                            /\ costumes[i].is_active = TRUE}, FALSE) }

(* CostumeCRUD.get_related_costumes: what it may return. *)
get_related_costumes(costume_id) ==
  IF get_by_id(costume_id) = {} THEN { <<>> }
  ELSE IF costumes[costume_id].related_costumes = <<>> THEN { <<>> }
  ELSE { Loaded(o) :
           o \in Arrangements({i \in DOMAIN costumes :
                                 /\ i \in Range(costumes[costume_id].related_costumes)
                                 /\ costumes[i].is_active = TRUE}, FALSE) }

(* POST /admin/costumes without images: CostumeCRUD.create inserts the row *)
(* unless the name is taken.  created_at and is_active are not passed, so  *)
(* the column defaults apply: is_active True, and for created_at the       *)
(* value datetime.now(UTC) had when the model module was imported.         *)
create_costume ==
  /\ reply = NoReply /\ req.pc = "idle"
  /\ next_id <= MaxId
  /\ \E name \in Names, tags \in TagLists, related_costumes \in RelatedLists :
       IF ByName(name) # {}
         THEN UNCHANGED <<costumes, next_id>>
         ELSE /\ costumes' =
                   [k \in DOMAIN costumes \cup {next_id} |->
                      IF k = next_id
                        THEN [name |-> name, amount |-> DefaultAmount, images |-> <<>>,
                              tags |-> tags, related_costumes |-> related_costumes,
                              created_at |-> imported_at, is_active |-> TRUE]
                        ELSE costumes[k]]
              /\ next_id' = next_id + 1
  /\ UNCHANGED <<uploads, req, users, imported_at, reply, outside>>

(* PUT /admin/costumes/{id} with tags and/or is_active supplied. *)
update_costume ==
  /\ reply = NoReply /\ req.pc = "idle"
  /\ \E costume_id \in Ids, set \in SUBSET {"tags", "is_active"},
        tags \in TagLists, is_active \in BOOLEAN :
       IF get_by_id(costume_id) = {}
         THEN UNCHANGED costumes
         ELSE costumes' = [costumes EXCEPT
                             ![costume_id].tags = IF "tags" \in set THEN tags ELSE @,
                             ![costume_id].is_active =
                                IF "is_active" \in set THEN is_active ELSE @]
  /\ UNCHANGED <<next_id, uploads, req, users, imported_at, reply, outside>>

(* The service is started again: app/models/costume.py is imported anew    *)
(* and the column default is evaluated at the present instant.             *)
restart ==
  /\ reply = NoReply /\ req.pc = "idle"
  /\ imported_at # now
  /\ imported_at' = now
  /\ UNCHANGED <<costumes, next_id, uploads, req, users, reply, outside>>

(* The tags parameter of the public list, as its comma-separated pieces.   *)
TagParams == { None, Some(<<"A">>), Some(<<"A", "B">>), Some(<<"", "">>) }

(* tag_list of get_costumes: None unless the parameter is a non-empty      *)
(* string, else its non-empty pieces.                                      *)
tag_list(tags) ==
  IF tags = None \/ tags = Some(<<"">>) THEN None
  ELSE {SelectSeq(t, LAMBDA piece : piece # "") : t \in tags}

public_filter_unforced(name, tags) == CostumeFilter(name, tag_list(tags), None)

(* The CostumeFilter get_costumes builds: is_active=True, always. *)
public_filter(name, tags) == CostumeFilter(name, tag_list(tags), Some(TRUE))

(* GET /costumes *)
get_costumes ==
  /\ reply = NoReply
  /\ \E skip \in 0..MaxSkip, limit \in 1..MaxId, name \in {None, Some(<<"e">>)},
        tags \in TagParams :
       \E result \in get_multi(skip, limit, Some(public_filter(name, tags))) :
         reply' = [fn |-> "get_costumes",
                   args |-> [skip |-> skip, limit |-> limit,
                             filters |-> Some(public_filter(name, tags))],
                   result |-> result]
  /\ UNCHANGED <<costumes, next_id, uploads, req, users, imported_at, outside>>

(* GET /admin/costumes *)
admin_get_costumes ==
  /\ reply = NoReply
  /\ \E skip \in 0..MaxSkip, limit \in 1..MaxId,
        is_active \in {None, Some(TRUE), Some(FALSE)} :
       LET filters == IF is_active # None
                        THEN Some(CostumeFilter(None, None, is_active))
                        ELSE None
       IN  \E result \in get_multi(skip, limit, filters) :
             reply' = [fn |-> "admin_get_costumes",
                       args |-> [skip |-> skip, limit |-> limit, filters |-> filters],
                       result |-> result]
  /\ UNCHANGED <<costumes, next_id, uploads, req, users, imported_at, outside>>

(* GET /costumes/search *)
search_costumes ==
  /\ reply = NoReply
  /\ \E q \in Queries, skip \in 0..MaxSkip, limit \in 1..MaxId :
       \E result \in search(q, skip, limit) :
         reply' = [fn |-> "search_costumes",
                   args |-> [q |-> q, skip |-> skip, limit |-> limit],
                   result |-> result]
  /\ UNCHANGED <<costumes, next_id, uploads, req, users, imported_at, outside>>

(* GET /admin/costumes/search/all: the same CostumeCRUD.search call. *)
admin_search_costumes ==
  /\ reply = NoReply
  /\ \E q \in Queries, skip \in 0..MaxSkip, limit \in 1..MaxId :
       \E result \in search(q, skip, limit) :
         reply' = [fn |-> "admin_search_costumes",
                   args |-> [q |-> q, skip |-> skip, limit |-> limit],
                   result |-> result]
  /\ UNCHANGED <<costumes, next_id, uploads, req, users, imported_at, outside>>

get_costume_unchecked(costume_id) ==
  IF get_by_id(costume_id) = {} THEN <<>> ELSE Loaded(<<costume_id>>)

(* GET /costumes/{costume_id}: 404 for no row and for an inactive one. *)
get_costume(costume_id) ==
  IF get_by_id(costume_id) = {} THEN <<>>
  ELSE IF ~costumes[costume_id].is_active THEN <<>>
  ELSE Loaded(<<costume_id>>)

call_get_costume ==
  /\ reply = NoReply
  /\ \E costume_id \in Ids :
       reply' = [fn |-> "get_costume", args |-> [costume_id |-> costume_id],
                 result |-> get_costume(costume_id)]
  /\ UNCHANGED <<costumes, next_id, uploads, req, users, imported_at, outside>>

(* GET /costumes/{costume_id}/related *)
call_get_related_costumes ==
  /\ reply = NoReply
  /\ \E costume_id \in Ids :
       \E result \in get_related_costumes(costume_id) :
         reply' = [fn |-> "get_related_costumes", args |-> [costume_id |-> costume_id],
                   result |-> result]
  /\ UNCHANGED <<costumes, next_id, uploads, req, users, imported_at, outside>>

(* SpecCatalog: costumes are created, tagged, activated and deactivated,   *)
(* the service is restarted, and the listings are queried in between.      *)
NextCatalog ==
  \/ create_costume
  \/ update_costume
  \/ restart
  \/ get_costumes
  \/ admin_get_costumes
  \/ search_costumes
  \/ admin_search_costumes
  \/ call_get_costume
  \/ call_get_related_costumes
  \/ returned

SpecCatalog == Init /\ [][NextCatalog]_vars

(* C29 as stated: the records of one descriptor have pairwise distinct     *)
(* relative paths, so that each names a file written for that record       *)
(* alone, also when an AVIF slot fell back to WEBP.                        *)
C29_DistinctPaths ==
  ProcessReplied =>
    \A i, j \in 1..Len(reply.result.variants) :
      i # j => reply.result.variants[i].path # reply.result.variants[j].path

(* ---------------------- claims on the catalogue ----------------------- *)
(* A listing through the filter engine has been answered. *)
Listed == reply.fn \in {"get_costumes", "admin_get_costumes"}

(* A public costume operation has been answered. *)
PublicReplied ==
  reply.fn \in {"get_costumes", "search_costumes", "get_costume", "get_related_costumes"}

(* The row satisfies every predicate the filter supplies. *)
Satisfies(row, filters) ==
  \A f \in filters :
    /\ \A name \in f.name : ilike(Spelling(row.name), name)
    /\ \A tags \in f.tags : \A k \in 1..Len(tags) : tags[k] \in Range(row.tags)
    /\ \A is_active \in f.is_active : row.is_active = is_active

(* The costumes that satisfy the filter of the answered listing. *)
Matching == {i \in DOMAIN costumes : Satisfies(costumes[i], reply.args.filters)}

ReturnedIds == {reply.result[k].id : k \in 1..Len(reply.result)}

C17_PublicOnlyActive ==
  PublicReplied =>
    /\ \A k \in 1..Len(reply.result) :
         /\ reply.result[k].is_active = TRUE
         /\ costumes[reply.result[k].id].is_active = TRUE
    /\ reply.fn = "get_costumes" =>
         \A f \in reply.args.filters : f.is_active = Some(TRUE)

(* C17 witness: the public list was asked with no name and no tags and a   *)
(* window of two while one of two costumes had been deactivated; only the  *)
(* active one came back.                                                   *)
C17_Witness ==
  /\ reply.fn = "get_costumes"
  /\ reply.args.filters = Some(CostumeFilter(None, None, Some(TRUE)))
  /\ reply.args.skip = 0 /\ reply.args.limit = 2
  /\ Cardinality(DOMAIN costumes) = 2
  /\ \E i \in DOMAIN costumes : ~costumes[i].is_active /\ i \notin ReturnedIds
  /\ Len(reply.result) = 1

(* The ids `ids` from the last created to the first created. *)
NewestFirst(ids) ==
  CHOOSE o \in [1..Cardinality(ids) -> ids] :
    \A p, q \in 1..Cardinality(ids) : p < q => o[p] > o[q]

(* C18 as stated: a listing is ordered newest first: of two returned       *)
(* costumes the one created by the later create comes first, and the       *)
(* result is the window [skip, skip + limit) of the matching costumes in   *)
(* that order.                                                             *)
C18_NewestFirst ==
  Listed =>
    /\ \A p, q \in 1..Len(reply.result) :
         p < q => reply.result[p].id > reply.result[q].id
    /\ reply.result
         = offset_limit(Loaded(NewestFirst(Matching)), reply.args.skip, reply.args.limit)

(* The text holds q as it is written, letter case ignored. *)
Occurs(text, q) ==
  \E i \in 0..(Len(text) - Len(q)) :
    \A j \in 1..Len(q) : lower(q[j]) = lower(text[i + j])

(* The costumes, active or not, whose name holds the searched text. *)
Holding(q) == {i \in DOMAIN costumes : Occurs(Spelling(costumes[i].name), q)}

(* C24 as stated: the admin search returns every costume whose name holds  *)
(* q, letter case ignored, inactive ones included: past the first `skip`   *)
(* of them it returns `limit` costumes, or all that are left.              *)
C24_AdminSearchAll ==
  reply.fn = "admin_search_costumes" =>
    Len(reply.result)
      >= Min(reply.args.limit, Max(0, Cardinality(Holding(reply.args.q)) - reply.args.skip))

(* -------------------------------- users ------------------------------- *)
(* A row of the users table carries role and is_active; the caller of a    *)
(* request is the user its access token names.                             *)
Roles == {"user", "admin", "super_admin"}
UserIds == 1..MaxUsers

(* The id the users sequence gives the next inserted row: one past the     *)
(* last id it gave, whether or not that row still exists.                  *)
next_user_id == user_id_seq + 1

(* dependencies.auth.get_current_user for a token naming `actor`. *)
get_current_user(actor) ==
  IF actor \notin DOMAIN users THEN "401 User not found"
  ELSE IF ~users[actor].is_active THEN "400 Inactive user"
  ELSE "ok"

(* dependencies.auth.get_current_admin *)
get_current_admin(actor) ==
  IF get_current_user(actor) # "ok" THEN get_current_user(actor)
  ELSE IF users[actor].role \notin {"admin", "super_admin"}
    THEN "403 Not enough permissions"
  ELSE "ok"

Refused(status) == [users |-> users, status |-> status]

(* UserCRUD.create with a fresh email and username: the role is the one    *)
(* the request names.                                                      *)
crud_user_create(role) ==
  [users |-> [k \in DOMAIN users \cup {next_user_id} |->
                IF k = next_user_id THEN [role |-> role, is_active |-> TRUE]
                ELSE users[k]],
   status |-> "ok"]

(* POST /admin/users *)
create_user_admin(actor, role) ==
  IF get_current_admin(actor) # "ok" THEN Refused(get_current_admin(actor))
  ELSE IF role = "super_admin" /\ users[actor].role # "super_admin"
    THEN Refused("403 Cannot create super admin")
  ELSE crud_user_create(role)

(* setattr for the supplied fields of a UserUpdate / AdminUserUpdate. *)
set_user_fields(row, data) ==
  [role      |-> IF "role" \in data.set THEN data.role ELSE row.role,
   is_active |-> IF "is_active" \in data.set THEN data.is_active ELSE row.is_active]

(* UserCRUD.update, behind get_current_user. *)
update_user(actor, user_id, data) ==
  IF get_current_user(actor) # "ok" THEN Refused(get_current_user(actor))
  ELSE IF actor # user_id /\ users[actor].role = "user"
    THEN Refused("403 Cannot update other users")
  ELSE IF user_id \notin DOMAIN users THEN Refused("404 User not found")
  ELSE [users |-> [users EXCEPT ![user_id] = set_user_fields(@, data)], status |-> "ok"]

(* PUT /admin/users/{user_id}: UserCRUD.admin_update, behind               *)
(* get_current_admin; the caller is not passed on.                         *)
update_user_admin(actor, user_id, data) ==
  IF get_current_admin(actor) # "ok" THEN Refused(get_current_admin(actor))
  ELSE IF user_id \notin DOMAIN users THEN Refused("404 User not found")
  ELSE [users |-> [users EXCEPT ![user_id] = set_user_fields(@, data)], status |-> "ok"]

(* PUT /admin/users/{user_id}/role: UserCRUD.change_role *)
change_role(actor, user_id, role) ==
  IF get_current_admin(actor) # "ok" THEN Refused(get_current_admin(actor))
  ELSE IF user_id \notin DOMAIN users THEN Refused("404 User not found")
  ELSE IF users[user_id].role = "super_admin" /\ users[actor].role # "super_admin"
    THEN Refused("403 Cannot modify super admin")
  ELSE [users |-> [users EXCEPT ![user_id].role = role], status |-> "ok"]

(* PUT /admin/users/{user_id}/activate *)
activate_user(actor, user_id) ==
  IF get_current_admin(actor) # "ok" THEN Refused(get_current_admin(actor))
  ELSE IF user_id \notin DOMAIN users THEN Refused("404 User not found")
  ELSE [users |-> [users EXCEPT ![user_id].is_active = TRUE], status |-> "ok"]

(* PUT /admin/users/{user_id}/deactivate *)
deactivate_user(actor, user_id) ==
  IF get_current_admin(actor) # "ok" THEN Refused(get_current_admin(actor))
  ELSE IF user_id \notin DOMAIN users THEN Refused("404 User not found")
  ELSE IF user_id = actor THEN Refused("400 Cannot deactivate yourself")
  ELSE [users |-> [users EXCEPT ![user_id].is_active = FALSE], status |-> "ok"]

(* DELETE /admin/users/{user_id} *)
delete_user_admin(actor, user_id) ==
  IF get_current_admin(actor) # "ok" THEN Refused(get_current_admin(actor))
  ELSE IF user_id \notin DOMAIN users THEN Refused("404 User not found")
  ELSE IF user_id = actor THEN Refused("400 Cannot delete yourself")
  ELSE IF users[user_id].role = "super_admin" /\ users[actor].role # "super_admin"
    THEN Refused("403 Cannot delete super admin")
  ELSE [users |-> [k \in DOMAIN users \ {user_id} |-> users[k]], status |-> "ok"]

(* DELETE /users/{user_id}: UserCRUD.delete, behind get_current_user. *)
delete_user(actor, user_id) ==
  IF get_current_user(actor) # "ok" THEN Refused(get_current_user(actor))
  ELSE IF actor # user_id /\ users[actor].role = "user"
    THEN Refused("403 Cannot delete other users")
  ELSE IF user_id \notin DOMAIN users THEN Refused("404 User not found")
  ELSE [users |-> [k \in DOMAIN users \ {user_id} |-> users[k]], status |-> "ok"]

(* core.security.create_access_token / create_refresh_token: the claims of *)
(* the signed token, sub and type.                                         *)
create_access_token(subject) == [sub |-> subject, type |-> "access"]
create_refresh_token(subject) == [sub |-> subject, type |-> "refresh"]

(* The request `fn` of caller `actor` about user `user_id` is answered     *)
(* with `out`: the table is what the handler committed, the sequence has   *)
(* moved if a row was inserted, and the reply keeps the table the handler  *)
(* started from. A registration answers with an access and a refresh token *)
(* for the new user.                                                       *)
Answer(fn, actor, user_id, out) ==
  /\ users' = out.users
  /\ user_id_seq' = IF next_user_id \in DOMAIN out.users THEN next_user_id
                    ELSE user_id_seq
  /\ tokens' = IF fn = "register" /\ out.status = "ok"
                 THEN tokens \cup {create_access_token(user_id),
                                   create_refresh_token(user_id)}
               ELSE tokens
  /\ reply' = [fn |-> fn, actor |-> actor, user_id |-> user_id,
               before |-> users, status |-> out.status]
  /\ UNCHANGED <<costumes, next_id, uploads, req, imported_at, tasks>>

(* The bodies a caller may send: UserUpdate has is_active and no role,     *)
(* AdminUserUpdate has both.                                               *)
UserUpdate ==
  { [set |-> s, role |-> "user", is_active |-> IF "is_active" \in s THEN a ELSE FALSE] :
      s \in SUBSET {"is_active"}, a \in BOOLEAN }

AdminUserUpdate ==
  { [set |-> s, role |-> IF "role" \in s THEN r ELSE "user",
     is_active |-> IF "is_active" \in s THEN a ELSE FALSE] :
      s \in SUBSET {"role", "is_active"}, r \in Roles, a \in BOOLEAN }

(* POST /auth/register: open to anyone, UserCreate carries a role. *)
register ==
  /\ next_user_id <= MaxUsers
  /\ \E role \in Roles : Answer("register", 0, next_user_id, crud_user_create(role))

call_create_user_admin ==
  /\ next_user_id <= MaxUsers
  /\ \E actor \in UserIds, role \in Roles :
       Answer("create_user_admin", actor, next_user_id, create_user_admin(actor, role))

call_update_user ==
  \E actor \in UserIds, user_id \in UserIds, data \in UserUpdate :
    Answer("update_user", actor, user_id, update_user(actor, user_id, data))

call_update_user_admin ==
  \E actor \in UserIds, user_id \in UserIds, data \in AdminUserUpdate :
    Answer("update_user_admin", actor, user_id, update_user_admin(actor, user_id, data))

change_user_role ==
  \E actor \in UserIds, user_id \in UserIds, role \in Roles :
    Answer("change_user_role", actor, user_id, change_role(actor, user_id, role))

call_activate_user ==
  \E actor \in UserIds, user_id \in UserIds :
    Answer("activate_user", actor, user_id, activate_user(actor, user_id))

call_deactivate_user ==
  \E actor \in UserIds, user_id \in UserIds :
    Answer("deactivate_user", actor, user_id, deactivate_user(actor, user_id))

call_delete_user_admin ==
  \E actor \in UserIds, user_id \in UserIds :
    Answer("delete_user_admin", actor, user_id, delete_user_admin(actor, user_id))

call_delete_user ==
  \E actor \in UserIds, user_id \in UserIds :
    Answer("delete_user", actor, user_id, delete_user(actor, user_id))

(* SpecUsers: the user management surface. *)
NextUsers ==
  \/ register
  \/ call_create_user_admin
  \/ call_update_user
  \/ call_update_user_admin
  \/ change_user_role
  \/ call_activate_user
  \/ call_deactivate_user
  \/ call_delete_user_admin
  \/ call_delete_user

SpecUsers == Init /\ [][NextUsers]_vars

(* ------------------------------- tokens ------------------------------- *)
(* Whatever a caller may present as a token: the claims of a token this    *)
(* server signed, or any other string (claims it never signed).            *)
Presentable == [sub : UserIds, type : {"access", "refresh"}]

(* The credentials of a login: the email or username of user `user`, with  *)
(* the right password or a wrong one.                                      *)
LoginRequest == [user : UserIds, password_ok : BOOLEAN]

(* core.security.verify_token: the payload of a token that was signed with *)
(* SECRET_KEY and has not expired, None for anything else.                 *)
verify_token(token, expired) ==
  IF token \in tokens /\ ~expired THEN Some(token) ELSE None

(* UserCRUD.authenticate: the user, or None. *)
authenticate(login_data) ==
  IF login_data.user \notin DOMAIN users THEN None
  ELSE IF ~login_data.password_ok THEN None
  ELSE IF ~users[login_data.user].is_active THEN None
  ELSE Some(login_data.user)

Issue(user_id) == {create_access_token(user_id), create_refresh_token(user_id)}

(* POST /auth/login *)
login(login_data) ==
  IF authenticate(login_data) = None
    THEN [status |-> "401 Incorrect email/username or password", issued |-> {}]
  ELSE [status |-> "ok", issued |-> Issue(login_data.user)]

refresh_token_active_unchecked(token, expired) ==
  LET payload == verify_token(token, expired)
  IN  IF payload = None \/ token.type # "refresh"
        THEN [status |-> "401 Invalid refresh token", issued |-> {}]
      ELSE IF token.sub \notin DOMAIN users
        THEN [status |-> "401 User not found or inactive", issued |-> {}]
      ELSE [status |-> "ok", issued |-> Issue(token.sub)]

(* POST /auth/refresh *)
refresh_token(token, expired) ==
  LET payload == verify_token(token, expired)
  IN  IF payload = None \/ token.type # "refresh"
        THEN [status |-> "401 Invalid refresh token", issued |-> {}]
      ELSE IF token.sub \notin DOMAIN users \/ ~users[token.sub].is_active
        THEN [status |-> "401 User not found or inactive", issued |-> {}]
      ELSE [status |-> "ok", issued |-> Issue(token.sub)]

(* GET /auth/me: get_current_user on the bearer token, then a new pair of  *)
(* tokens for the user it named.                                           *)
get_me(token, expired) ==
  LET payload == verify_token(token, expired)
  IN  IF payload = None \/ token.type # "access"
        THEN [status |-> "401 Invalid authentication credentials", issued |-> {}]
      ELSE IF get_current_user(token.sub) # "ok"
        THEN [status |-> get_current_user(token.sub), issued |-> {}]
      ELSE [status |-> "ok", issued |-> Issue(token.sub)]

(* The attempt `fn` for user `user_id` is answered with `out`; the reply   *)
(* keeps the table and the tokens in circulation when it was made.         *)
Attempt(fn, user_id, token, out) ==
  /\ tokens' = tokens \cup out.issued
  /\ reply' = [fn |-> fn, user_id |-> user_id, token |-> token, before |-> users,
               circulating |-> tokens, status |-> out.status, issued |-> out.issued]
  /\ UNCHANGED <<costumes, next_id, uploads, req, users, imported_at, user_id_seq, tasks>>

call_login ==
  \E login_data \in LoginRequest :
    Attempt("login", login_data.user, [sub |-> 0, type |-> "none"], login(login_data))

call_refresh_token ==
  \E token \in Presentable, expired \in BOOLEAN :
    Attempt("refresh_token", token.sub, token, refresh_token(token, expired))

call_get_me ==
  \E token \in Presentable, expired \in BOOLEAN :
    Attempt("get_me", token.sub, token, get_me(token, expired))

(* SpecAuth: users register, log in, refresh and use their tokens while an *)
(* administrator deactivates, reactivates and deletes them.                *)
NextAuth ==
  \/ register
  \/ call_login
  \/ call_refresh_token
  \/ call_get_me
  \/ call_deactivate_user
  \/ call_activate_user
  \/ call_delete_user_admin

SpecAuth == Init /\ [][NextAuth]_vars

(* ------------------------- claims on the tokens ----------------------- *)
(* A login, a refresh or an authenticated request has been answered. *)
AuthAnswered == reply.fn \in {"login", "refresh_token", "get_me"}

(* The user the attempt was for was deleted or inactive when it was made. *)
LockedOut ==
  \/ reply.user_id \notin DOMAIN reply.before
  \/ ~reply.before[reply.user_id].is_active

(* C30: while a user is deleted or inactive, no login with that user's     *)
(* credentials, no refresh with a token issued to that user and no request *)
(* bearing one succeeds or yields tokens; and never is a refresh token     *)
(* accepted for authentication or an access token for refresh.             *)
C30_LockedOut ==
  AuthAnswered =>
    /\ LockedOut => (reply.status # "ok" /\ reply.issued = {})
    /\ (reply.fn = "get_me" /\ reply.token.type # "access") => reply.status # "ok"
    /\ (reply.fn = "refresh_token" /\ reply.token.type # "refresh") => reply.status # "ok"

(* A refresh token issued to a user who has since been deactivated was     *)
(* presented before it expired.                                            *)
C30_Witness ==
  /\ reply.fn = "refresh_token"
  /\ reply.token \in reply.circulating
  /\ reply.token.type = "refresh"
  /\ reply.user_id \in DOMAIN reply.before
  /\ ~reply.before[reply.user_id].is_active
  /\ reply.status = "401 User not found or inactive"

(* ------------------------- claims on the users ------------------------ *)
(* The answered request came from a caller who was not a super_admin and   *)
(* was about a user who was a super_admin when the request started.        *)
LesserOnSuperAdmin ==
  /\ reply.fn \in {"update_user", "update_user_admin", "change_user_role",
                   "activate_user", "deactivate_user"}
  /\ reply.actor \in DOMAIN reply.before
  /\ reply.before[reply.actor].role \in {"user", "admin"}
  /\ reply.user_id \in DOMAIN reply.before
  /\ reply.before[reply.user_id].role = "super_admin"

(* C19 as stated: after any role change, admin user update or user update  *)
(* made by a caller whose role is user or admin, a target whose role was   *)
(* super_admin still has role super_admin.                                 *)
C19_SuperAdminNotDemoted ==
  (LesserOnSuperAdmin
     /\ reply.fn \in {"change_user_role", "update_user_admin", "update_user"})
    => users[reply.user_id].role = "super_admin"

(* C20 as stated: after any deactivate, admin user update or user update   *)
(* made by a caller whose role is user or admin, a target whose role was   *)
(* super_admin and who was active is still active.                         *)
C20_SuperAdminNotDeactivated ==
  (LesserOnSuperAdmin
     /\ reply.fn \in {"deactivate_user", "update_user_admin", "update_user"}
     /\ reply.before[reply.user_id].is_active)
    => users[reply.user_id].is_active

(* The caller of the answered request existed when it started and was not  *)
(* a super_admin, or the request carried no token at all.                  *)
LesserActor ==
  \/ reply.actor = 0
  \/ /\ reply.actor \in DOMAIN reply.before
     /\ reply.before[reply.actor].role \in {"user", "admin"}

(* C21 as stated: after an admin user delete or a general user delete made *)
(* by a caller who is not a super_admin, a user who was a super_admin      *)
(* still exists.                                                           *)
C21_SuperAdminNotDeleted ==
  (/\ reply.fn \in {"delete_user_admin", "delete_user"}
   /\ LesserActor
   /\ reply.user_id \in DOMAIN reply.before
   /\ reply.before[reply.user_id].role = "super_admin")
    => reply.user_id \in DOMAIN users

(* C22 as stated: after an admin delete, a deactivate, an admin user       *)
(* update or a role change whose target is the caller itself, the caller's *)
(* record still exists and is active.                                      *)
C22_NoSelfLockout ==
  (/\ reply.fn \in {"delete_user_admin", "deactivate_user", "update_user_admin",
                     "change_user_role"}
   /\ reply.actor = reply.user_id
   /\ reply.actor \in DOMAIN reply.before
   /\ reply.before[reply.actor].is_active)
    => /\ reply.actor \in DOMAIN users
       /\ users[reply.actor].is_active

SuperAdmins(table) == {k \in DOMAIN table : table[k].role = "super_admin"}

(* C25 as stated: a user creation by an admin, a registration, a role      *)
(* change or an admin user update made by a caller who is not a            *)
(* super_admin leaves no user a super_admin who was not one before.        *)
C25_NoNewSuperAdmin ==
  (/\ reply.fn \in {"create_user_admin", "register", "change_user_role",
                     "update_user_admin"}
   /\ LesserActor)
    => SuperAdmins(users) \subseteq SuperAdmins(reply.before)

====
